---- MODULE Spec2Model ----
(***************************************************************************)
(* Model of the LaserWeed model converter: the single-model converter      *)
(* (convert_model.py: ModelConverter, validate_model) and the batch        *)
(* orchestrator (batch_convert.py: BatchConverter).                        *)
(*                                                                         *)
(* File names are sequences of one-character strings, so that the          *)
(* substring tests, Path.suffix and Path.stem are computed as the code     *)
(* computes them.  File contents are abstracted to what the code reads of  *)
(* them.  The external tools (torch.load/save, ultralytics YOLO and        *)
(* export, tensorflowjs_converter, the file system) are nondeterministic.  *)
(***************************************************************************)
EXTENDS Integers, Sequences, FiniteSets, TLC

\* ------------------------------------------------------------------ bounds

\* Number of batch processes run one after the other over the same directory.
MaxRuns == 2

\* ------------------------------------------------------------- file names

DOT == "."

\* str.lower() on the characters the candidate names use.
LowerChar(c) ==
    CASE c = "X" -> "x"
      [] c = "T" -> "t"
      [] c = "M" -> "m"
      [] OTHER -> c

Lower(s) == [i \in 1..Len(s) |-> LowerChar(s[i])]

\* Python's `sub in s` on strings.
Contains(s, sub) ==
    \E i \in 0..(Len(s) - Len(sub)) : SubSeq(s, i + 1, i + Len(sub)) = sub

\* str.rfind('.') as a 1-based index, 0 when there is no dot.
RFindDot(s) ==
    IF \E i \in 1..Len(s) : s[i] = DOT
    THEN CHOOSE i \in 1..Len(s) : s[i] = DOT /\ \A j \in (i + 1)..Len(s) : s[j] # DOT
    ELSE 0

\* pathlib's PurePath.suffix: the last dot and what follows it, unless the dot
\* is the first or the last character of the name.
Suffix(name) ==
    LET i == RFindDot(name)
    IN  IF 1 < i /\ i < Len(name) THEN SubSeq(name, i, Len(name)) ELSE <<>>

\* pathlib's PurePath.stem: the name without its suffix.
Stem(name) ==
    LET i == RFindDot(name)
    IN  IF 1 < i /\ i < Len(name) THEN SubSeq(name, 1, i - 1) ELSE name

ExtCkpt == <<".", "c", "k", "p", "t">>
ExtPt   == <<".", "p", "t">>
ExtOnnx == <<".", "o", "n", "n", "x">>

S_yolov7 == <<"y", "o", "l", "o", "v", "7">>
S_yolov5 == <<"y", "o", "l", "o", "v", "5">>
S_yolov8 == <<"y", "o", "l", "o", "v", "8">>
S_tiny   == <<"t", "i", "n", "y">>
S_x      == <<"x">>
S_e6     == <<"e", "6">>
S_1280   == <<"1", "2", "8", "0">>
S_s      == <<"s">>
S_m      == <<"m">>
S_l      == <<"l">>

\* A path is a directory (the sequence of its components) and a file name.
Path(d, n) == [dir |-> d, name |-> n]

\* Path.with_suffix('.onnx')
WithSuffixOnnx(p) == Path(p.dir, Stem(p.name) \o ExtOnnx)

\* model_path.parent / model_path.stem
OutputDir(p) == Append(p.dir, Stem(p.name))

\* BatchConverter.models_dir
ModelsDir == << <<"models">> >>

\* The model files the models directory may hold.
FileMCkpt == Path(ModelsDir, <<"m", ".", "c", "k", "p", "t">>)
FileMPt   == Path(ModelsDir, <<"m", ".", "p", "t">>)
FileMOnnx == Path(ModelsDir, <<"m", ".", "o", "n", "n", "x">>)
FileTCkpt == Path(ModelsDir, <<"t", "i", "n", "y", ".", "c", "k", "p", "t">>)

CandidateFiles == {FileMCkpt, FileMPt, FileMOnnx, FileTCkpt}

\* The listings the models directory starts with: empty, one file of each
\* extension, two files sharing a stem, two files with different stems.
DirectorySamples ==
    { {}, {FileMCkpt}, {FileMPt}, {FileMOnnx},
      {FileMCkpt, FileMOnnx}, {FileMCkpt, FileMPt}, {FileMPt, FileMOnnx},
      {FileMCkpt, FileTCkpt}, {FileTCkpt, FileMOnnx} }

\* output_path / "temp_model.pt" and output_path / "temp_model.onnx"
TempPtFile(d) ==
    Path(d, <<"t", "e", "m", "p", "_", "m", "o", "d", "e", "l", ".", "p", "t">>)

TempOnnxFile(d) ==
    Path(d, <<"t", "e", "m", "p", "_", "m", "o", "d", "e", "l", ".", "o", "n", "n", "x">>)

\* The output directories of the candidate files, and those of the interim
\* files a conversion may leave in them (the scan is recursive).
CandidateDirs == {OutputDir(p) : p \in CandidateFiles}

OutDirs == CandidateDirs \cup {OutputDir(TempPtFile(d)) : d \in CandidateDirs}

\* --------------------------------------------------------- Python values

\* The value of a class-name field: a list, a mapping (its values in
\* iteration order), None, or an object json cannot serialise.
PyList(v) == [kind |-> "list", vals |-> v]
PyDict(v) == [kind |-> "dict", vals |-> v]
PyNone    == [kind |-> "none", vals |-> <<>>]
PyBad     == [kind |-> "bad",  vals |-> <<>>]

\* A loaded checkpoint.  shape: "dict" (a mapping), "seq" (a list or tuple: it
\* supports `in` and holds no strings), "opaque" (an object without
\* __contains__, such as a pickled module).  keys: the keys a mapping holds.
\* data: the value under each model key: "none" (None), "weights" (a raw
\* state mapping), "module" (an object with a state_dict method).
\* cls: the value under the class-name key the mapping holds (names,
\* class_names or classes).
Ckpt(shape, keys, data, cls) ==
    [shape |-> shape, keys |-> keys, data |-> data, cls |-> cls]

NoData == [k \in {"model", "ema", "state_dict"} |-> "none"]

\* What torch.load may return for a .ckpt file, or "corrupt" when it raises.
CheckpointSamples ==
    { Ckpt("dict", {"model", "names"}, [NoData EXCEPT !["model"] = "module"],
           PyDict(<<"crop", "weed">>)),
      Ckpt("dict", {"state_dict", "epoch"}, [NoData EXCEPT !["state_dict"] = "weights"],
           PyNone),
      Ckpt("dict", {"model", "ema", "names"}, [NoData EXCEPT !["ema"] = "weights"],
           PyList(<<"weed">>)),
      Ckpt("dict", {"names", "best_fitness"}, NoData, PyDict(<<"crop", "weed">>)),
      Ckpt("dict", {"names"}, NoData, PyBad),
      Ckpt("dict", {"names", "epoch"}, NoData, PyList(<<>>)),
      Ckpt("dict", {"classes"}, NoData, PyList(<<"weed">>)),
      Ckpt("dict", {}, NoData, PyNone),
      Ckpt("seq", {}, NoData, PyNone),
      Ckpt("opaque", {}, NoData, PyNone),
      Ckpt("corrupt", {}, NoData, PyNone) }

\* The smaller choice for the second checkpoint file.
CheckpointSamplesSmall ==
    { c \in CheckpointSamples :
        \/ c.shape \in {"opaque", "corrupt"}
        \/ c.shape = "dict" /\ c.keys = {"model", "names"}
        \/ c.shape = "dict" /\ c.keys = {} }

\* A .pt file: the names attribute of the model YOLO() loads from it, or
\* "corrupt" when YOLO() raises.
PtSamples ==
    { [ok |-> TRUE, hasNames |-> TRUE, names |-> PyDict(<<"crop", "weed">>)],
      [ok |-> TRUE, hasNames |-> FALSE, names |-> PyNone],
      [ok |-> FALSE, hasNames |-> FALSE, names |-> PyNone] }

NoCkpt == Ckpt("corrupt", {}, NoData, PyNone)
NoPt   == [ok |-> FALSE, hasNames |-> FALSE, names |-> PyNone]

\* ------------------------------------------------------------------- JSON

\* What json.load gives for what json.dump wrote of a Python value: a list
\* becomes an array, a mapping an object (its keys turned into strings),
\* None becomes null.
JsonOf(v) ==
    [kind |-> CASE v.kind = "list" -> "array"
                [] v.kind = "dict" -> "object"
                [] OTHER -> "null",
     vals |-> v.vals]

\* json.dump raises TypeError on a value it cannot serialise.
Serialisable(v) == v.kind # "bad"

\* The content of a descriptor file.
Absent    == [kind |-> "absent"]
Malformed == [kind |-> "malformed"]
JsonObject(members) == [kind |-> "object", members |-> members]

\* A directory of converted output: whether it exists, model.json (absent,
\* a converted graph, the fallback's placeholder, or text that is not JSON),
\* classes.json, and the two interim files.
EmptyDir ==
    [exists |-> FALSE, model |-> "absent", classes |-> Absent,
     tempPt |-> FALSE, tempOnnx |-> FALSE]

\* ------------------------------------------------- Model Family Classifier

\* determine_model_type testing x before tiny.
determine_model_type_XFirst(p) ==
    LET name == Lower(p.name)
    IN  IF Contains(name, S_yolov7) \/ Suffix(p.name) = ExtCkpt
        THEN IF Contains(name, S_x) THEN "yolov7-x"
             ELSE IF Contains(name, S_tiny) THEN "yolov7-tiny"
             ELSE IF Contains(name, S_e6) THEN "yolov7-e6"
             ELSE "yolov7"
        ELSE IF Contains(name, S_yolov5)
        THEN IF Contains(name, S_s) THEN "yolov5s"
             ELSE IF Contains(name, S_m) THEN "yolov5m"
             ELSE IF Contains(name, S_l) THEN "yolov5l"
             ELSE "yolov5"
        ELSE IF Contains(name, S_yolov8) THEN "yolov8"
        ELSE "unknown"

\* determine_model_type testing the path with its parent directory instead
\* of the file name alone.
determine_model_type_WithParent(p) ==
    LET name == Lower(p.dir[Len(p.dir)] \o p.name)
    IN  IF Contains(name, S_yolov7) \/ Suffix(p.name) = ExtCkpt
        THEN IF Contains(name, S_tiny) THEN "yolov7-tiny"
             ELSE IF Contains(name, S_x) THEN "yolov7-x"
             ELSE IF Contains(name, S_e6) THEN "yolov7-e6"
             ELSE "yolov7"
        ELSE IF Contains(name, S_yolov5)
        THEN IF Contains(name, S_s) THEN "yolov5s"
             ELSE IF Contains(name, S_m) THEN "yolov5m"
             ELSE IF Contains(name, S_l) THEN "yolov5l"
             ELSE "yolov5"
        ELSE IF Contains(name, S_yolov8) THEN "yolov8"
        ELSE "unknown"

\* BatchConverter.determine_model_type
determine_model_type(p) ==
    LET name == Lower(p.name)
    IN  IF Contains(name, S_yolov7) \/ Suffix(p.name) = ExtCkpt
        THEN IF Contains(name, S_tiny) THEN "yolov7-tiny"
             ELSE IF Contains(name, S_x) THEN "yolov7-x"
             ELSE IF Contains(name, S_e6) THEN "yolov7-e6"
             ELSE "yolov7"
        ELSE IF Contains(name, S_yolov5)
        THEN IF Contains(name, S_s) THEN "yolov5s"
             ELSE IF Contains(name, S_m) THEN "yolov5m"
             ELSE IF Contains(name, S_l) THEN "yolov5l"
             ELSE "yolov5"
        ELSE IF Contains(name, S_yolov8) THEN "yolov8"
        ELSE "unknown"

\* The characters of the strings determine_model_type returns.
TypeChars(model_type) ==
    CASE model_type = "yolov7-tiny" -> S_yolov7 \o <<"-">> \o S_tiny
      [] model_type = "yolov7-x"    -> S_yolov7 \o <<"-">> \o S_x
      [] model_type = "yolov7-e6"   -> S_yolov7 \o <<"-">> \o S_e6
      [] model_type = "yolov7"      -> S_yolov7
      [] model_type = "yolov5s"     -> S_yolov5 \o S_s
      [] model_type = "yolov5m"     -> S_yolov5 \o S_m
      [] model_type = "yolov5l"     -> S_yolov5 \o S_l
      [] model_type = "yolov5"      -> S_yolov5
      [] model_type = "yolov8"      -> S_yolov8
      [] OTHER -> <<"u", "n", "k", "n", "o", "w", "n">>

\* BatchConverter.get_performance_tier: substring tests on the type string.
get_performance_tier(model_type) ==
    LET t == TypeChars(model_type)
    IN  IF Contains(t, S_tiny) THEN "fast"
        ELSE IF Contains(t, S_x) \/ Contains(t, S_l) THEN "accurate"
        ELSE IF Contains(t, S_e6) THEN "premium"
        ELSE "balanced"

\* The default model information (convert_model.py, lines 145-150).
DefaultInfo ==
    [classes |-> PyList(<<"crop", "weed">>), input_size |-> <<640, 640>>,
     model_type |-> "yolov7", variant |-> "base"]

\* `'names' in checkpoint`: a membership test on the loaded object.  It raises
\* TypeError on an object that is no container.
HasKey(ckpt, k) == ckpt.shape = "dict" /\ k \in ckpt.keys

SupportsIn(ckpt) == ckpt.shape \in {"dict", "seq"}

\* _extract_yolov7_info keeping the names mapping as it is instead of the
\* list of its values.
extract_yolov7_info_RawNames(ckpt, fileName) ==
    LET classes == IF HasKey(ckpt, "names") THEN ckpt.cls ELSE DefaultInfo.classes
        filename == Lower(fileName)
        variant ==
            IF Contains(filename, S_tiny) THEN "tiny"
            ELSE IF Contains(filename, S_x) THEN "x"
            ELSE IF Contains(filename, S_e6) THEN "e6"
            ELSE "base"
        size ==
            IF variant = "e6" /\ Contains(filename, S_1280)
            THEN <<1280, 1280>> ELSE <<640, 640>>
    IN  [classes |-> classes, input_size |-> size,
         model_type |-> "yolov7", variant |-> variant]

\* _extract_yolov7_info testing the name for e6 before x.
extract_yolov7_info_E6First(ckpt, fileName) ==
    LET classes ==
            IF HasKey(ckpt, "names")
            THEN IF ckpt.cls.kind = "dict" THEN PyList(ckpt.cls.vals) ELSE ckpt.cls
            ELSE DefaultInfo.classes
        filename == Lower(fileName)
        variant ==
            IF Contains(filename, S_tiny) THEN "tiny"
            ELSE IF Contains(filename, S_e6) THEN "e6"
            ELSE IF Contains(filename, S_x) THEN "x"
            ELSE "base"
        size ==
            IF variant = "e6" /\ Contains(filename, S_1280)
            THEN <<1280, 1280>> ELSE <<640, 640>>
    IN  [classes |-> classes, input_size |-> size,
         model_type |-> "yolov7", variant |-> variant]

\* ModelConverter._extract_yolov7_info, for a checkpoint that supports `in`.
extract_yolov7_info(ckpt, fileName) ==
    LET classes ==
            IF HasKey(ckpt, "names")
            THEN IF ckpt.cls.kind = "dict" THEN PyList(ckpt.cls.vals) ELSE ckpt.cls
            ELSE DefaultInfo.classes
        filename == Lower(fileName)
        variant ==
            IF Contains(filename, S_tiny) THEN "tiny"
            ELSE IF Contains(filename, S_x) THEN "x"
            ELSE IF Contains(filename, S_e6) THEN "e6"
            ELSE "base"
        size ==
            IF variant = "e6" /\ Contains(filename, S_1280)
            THEN <<1280, 1280>> ELSE <<640, 640>>
    IN  [classes |-> classes, input_size |-> size,
         model_type |-> "yolov7", variant |-> variant]

\* ---------------------------------------------------- Metadata Synthesizer

\* The descriptor _generate_yolov7_classes_json builds (lines 221-234), as
\* json.load reads it back.  Thresholds are in hundredths.
YoloV7Config(info) ==
    JsonObject(
      [classes |-> JsonOf(info.classes),
       modelType |-> <<"yolov7-", info.variant>>,
       inputSize |-> info.input_size,
       threshold |-> 35,
       iouThreshold |-> 65,
       description |-> <<"YOLOv7 ", info.variant, " model for crop/weed detection">>,
       optimizedFor |-> "agricultural_detection",
       performance |-> CASE info.variant = "tiny" -> "fast_inference"
                         [] info.variant = "x" -> "high_accuracy"
                         [] info.variant = "e6" -> "highest_accuracy"
                         [] OTHER -> "balanced"])

\* ModelConverter._generate_yolov7_classes_json: the output directory after
\* the call.  io = "fail": open() raises and nothing is written.  A value
\* json.dump cannot serialise raises after the file was truncated and partly
\* written.  Either exception is caught (lines 243-244): the call returns.
generate_yolov7_classes_json(dir, info, io) ==
    IF io = "fail" THEN dir
    ELSE IF Serialisable(info.classes) THEN [dir EXCEPT !.classes = YoloV7Config(info)]
    ELSE [dir EXCEPT !.classes = Malformed]

\* The descriptor _generate_classes_json builds for a loaded YOLO model
\* (lines 416-431).
YoloV5Config(pt) ==
    LET class_names == IF pt.hasNames THEN pt.names ELSE PyList(<<>>)
        classes == IF class_names.kind = "dict" THEN PyList(class_names.vals)
                   ELSE class_names
    IN  JsonObject(
          [classes |-> JsonOf(classes),
           modelType |-> "yolov5",
           inputSize |-> <<640, 640>>,
           anchors |-> << <<10, 13, 16, 30, 33, 23>>, <<30, 61, 62, 45, 59, 119>>,
                          <<116, 90, 156, 198, 373, 326>> >>,
           strides |-> <<8, 16, 32>>,
           threshold |-> 50,
           iouThreshold |-> 45])

\* The minimal descriptor of _generate_classes_json's handler (lines 443-449).
MinimalConfig ==
    JsonObject(
      [classes |-> JsonOf(PyList(<<"weed", "crop">>)),
       modelType |-> "yolo",
       inputSize |-> <<640, 640>>,
       threshold |-> 50,
       iouThreshold |-> 45])

\* ModelConverter._generate_classes_json: [raised, dir].  An error in the try
\* block is caught and the minimal descriptor is written by a second open(),
\* outside any handler: with io = "fail" that open raises too.
generate_classes_json(dir, pt, io) ==
    LET class_names == IF pt.hasNames THEN pt.names ELSE PyList(<<>>)
    IN  IF io = "fail" THEN [raised |-> TRUE, dir |-> dir]
        ELSE IF class_names.kind = "none"
        THEN \* len(None) raises after the file was written; the handler
             \* then writes the minimal descriptor.
             [raised |-> FALSE, dir |-> [dir EXCEPT !.classes = MinimalConfig]]
        ELSE IF Serialisable(class_names)
        THEN [raised |-> FALSE, dir |-> [dir EXCEPT !.classes = YoloV5Config(pt)]]
        ELSE [raised |-> FALSE, dir |-> [dir EXCEPT !.classes = MinimalConfig]]

\* --------------------------------------------------------- Output Validator

S_classes == <<"c", "l", "a", "s", "s", "e", "s">>

\* `'classes' in config` on what json.load returned: a key test on an object,
\* an element test on an array, a substring test on a string; TypeError on a
\* number, a boolean or null.
InRaises(config) == config.kind = "scalar"

InConfig(config) ==
    CASE config.kind = "object" -> "classes" \in DOMAIN config.members
      [] config.kind = "array"  -> "classes" \in config.elems
      [] config.kind = "string" -> Contains(config.text, S_classes)
      [] OTHER -> FALSE

\* validate_model (convert_model.py, lines 458-488).
validate_model(dir) ==
    IF dir.model = "absent" THEN FALSE
    ELSE IF dir.classes.kind = "absent" THEN FALSE
    ELSE IF dir.model = "malformed" THEN FALSE
    ELSE IF dir.classes.kind = "malformed" THEN FALSE
    ELSE IF InRaises(dir.classes) THEN FALSE
    ELSE InConfig(dir.classes)

\* ------------------------------------------------------- external tools

\* What the external calls of one step may do.
\*   save:      torch.save writes the file, raises before creating it, or
\*              raises leaving a partly written file
\*   yolo:      YOLO(path) returns a model or raises
\*   export:    model.export returns having written the .onnx file, returns
\*              without one, raises, or raises leaving a .onnx file
\*   tfjs:      tensorflowjs_converter writes model.json or writes nothing
\*              (os.system never raises)
\*   status:    the exit status os.system returns for the converter, which
\*              the code discards
\*   io:        the open() calls for writing of the step: all work, or the
\*              output directory cannot be written and each raises
\*   size:      the stat() calls of calculate_model_size
\*   reload:    the second torch.load, of _convert_yolov7_alternative
Env ==
    [save : {"ok", "raise", "raise_partial"},
     yolo : {"ok", "raise"},
     export : {"file", "nofile", "raise", "raise_file"},
     tfjs : {"graph", "nothing"},
     status : {"zero", "nonzero"},
     io : {"ok", "fail"},
     size : {"ok", "raise"},
     reload : {"ok", "raise"}]

\* Every external call behaves.
QuietEnv ==
    [save |-> "ok", yolo |-> "ok", export |-> "file", tfjs |-> "graph",
     status |-> "zero", io |-> "ok", size |-> "ok", reload |-> "ok"]

\* The environments that differ from QuietEnv in the calls one step makes.
EnvExport ==
    {[QuietEnv EXCEPT !.save = a, !.yolo = b, !.export = c, !.tfjs = d, !.io = e] :
        a \in {"ok", "raise", "raise_partial"}, b \in {"ok", "raise"},
        c \in {"file", "nofile", "raise", "raise_file"}, d \in {"graph", "nothing"},
        e \in {"ok", "fail"}}

EnvTfjs ==
    {[QuietEnv EXCEPT !.tfjs = d, !.status = x] :
        d \in {"graph", "nothing"}, x \in {"zero", "nonzero"}}

EnvWrite ==
    {[QuietEnv EXCEPT !.io = e, !.reload = g] :
        e \in {"ok", "fail"}, g \in {"ok", "raise"}}

EnvSize == {[QuietEnv EXCEPT !.size = z] : z \in {"ok", "raise"}}

\* ---------------------------------------------------- Graph Exporter Adapter

\* _convert_onnx taking the converter's exit status for the result.
convert_onnx_ByExitStatus(dir, onnxExists, env) ==
    LET d1 == IF onnxExists /\ env.tfjs = "graph"
              THEN [dir EXCEPT !.model = "graph"] ELSE dir
    IN  [success |-> env.status = "zero", dir |-> d1,
         produced |-> onnxExists /\ env.tfjs = "graph", exit |-> env.status]

\* ModelConverter._convert_onnx: [success, dir, produced, exit].  The
\* converter can write a graph only from an .onnx file that exists; success
\* is the existence of model.json afterwards (lines 400-406).  The quantize
\* flag only adds an argument to the command line.  exit: the status
\* os.system returned (line 397), which the code does not keep.
convert_onnx(dir, onnxExists, env) ==
    LET d1 == IF onnxExists /\ env.tfjs = "graph"
              THEN [dir EXCEPT !.model = "graph"] ELSE dir
    IN  [success |-> d1.model # "absent", dir |-> d1,
         produced |-> onnxExists /\ env.tfjs = "graph", exit |-> env.status]

\* ------------------------------------------------------------- strategies

\* What a strategy call gave: its outcome ("success", "failure" for a False
\* return, "raised"), the output directory after it, whether it assigned
\* self.temp_onnx_path, and whether it wrote model.json.
Result(outcome, dir, onnxSet, produced) ==
    [outcome |-> outcome, dir |-> dir, onnxSet |-> onnxSet, produced |-> produced]

\* The first of model, ema, state_dict the checkpoint holds (lines 251-260),
\* "" when it holds none.
UsedKey(ckpt) ==
    IF HasKey(ckpt, "model") THEN "model"
    ELSE IF HasKey(ckpt, "ema") THEN "ema"
    ELSE IF HasKey(ckpt, "state_dict") THEN "state_dict"
    ELSE ""

\* ModelConverter._strategy_ultralytics_export.  onnxSet: whether the call
\* assigned self.temp_onnx_path.  The exported file temp_model.pt's
\* with_suffix('.onnx') is temp_onnx_path itself.
strategy_ultralytics_export(dir, ckpt, info, env) ==
    LET used_key == UsedKey(ckpt)
        model_data == IF used_key = "" THEN "none" ELSE ckpt.data[used_key]
        unlinked(d) == [d EXCEPT !.tempPt = FALSE]
    IN  IF model_data = "none" THEN Result("raised", dir, FALSE, FALSE)
        ELSE IF env.save = "raise" THEN Result("raised", dir, FALSE, FALSE)
        ELSE IF env.save = "raise_partial"
        THEN Result("raised", [dir EXCEPT !.tempPt = TRUE], FALSE, FALSE)
        ELSE IF env.yolo = "raise" THEN Result("raised", unlinked(dir), FALSE, FALSE)
        ELSE IF env.export = "raise" THEN Result("raised", unlinked(dir), TRUE, FALSE)
        ELSE IF env.export = "raise_file"
        THEN Result("raised", unlinked([dir EXCEPT !.tempOnnx = TRUE]), TRUE, FALSE)
        ELSE LET d1 == IF env.export = "file" THEN [dir EXCEPT !.tempOnnx = TRUE] ELSE dir
             IN  IF ~d1.tempOnnx THEN Result("failure", unlinked(d1), TRUE, FALSE)
                 ELSE LET r == convert_onnx(d1, TRUE, env)
                          d2 == IF r.success
                                THEN generate_yolov7_classes_json(r.dir, info, env.io)
                                ELSE r.dir
                      IN  Result(IF r.success THEN "success" ELSE "failure",
                                 unlinked(d2), TRUE, r.produced)

\* ModelConverter._strategy_direct_onnx_export: raises NotImplementedError.
strategy_direct_onnx_export(dir, ckpt, info, env) == Result("raised", dir, FALSE, FALSE)

\* ModelConverter._strategy_manual_reconstruction: raises NotImplementedError.
strategy_manual_reconstruction(dir, ckpt, info, env) == Result("raised", dir, FALSE, FALSE)

\* The class names the fallback takes from the checkpoint (lines 352-355):
\* the raw value under the first of names, class_names, classes.
FallbackInfo(ckpt, info) ==
    IF HasKey(ckpt, "names") \/ HasKey(ckpt, "class_names") \/ HasKey(ckpt, "classes")
    THEN [info EXCEPT !.classes = ckpt.cls]
    ELSE info

\* The fallback reporting success without writing the placeholder.
strategy_fallback_conversion_NoPlaceholder(dir, ckpt, info, env) ==
    Result("success",
           generate_yolov7_classes_json(dir, FallbackInfo(ckpt, info), env.io),
           FALSE, FALSE)

\* ModelConverter._strategy_fallback_conversion
strategy_fallback_conversion(dir, ckpt, info, env) ==
    LET enhanced_model_info == FallbackInfo(ckpt, info)
        d1 == generate_yolov7_classes_json(dir, enhanced_model_info, env.io)
    IN  IF env.io = "fail" THEN Result("raised", d1, FALSE, FALSE)
        ELSE Result("success", [d1 EXCEPT !.model = "placeholder"], FALSE, TRUE)

\* AfterStrategy without the early return on success: the loop goes on.
AfterStrategy_NoStop(i, outcome) ==
    IF i < 4 THEN [cpc |-> "strategy", ret |-> "none"]
    ELSE [cpc |-> "exhausted", ret |-> "none"]

\* AfterStrategy without the inner handler: a strategy's exception reaches
\* the handler of line 139.
AfterStrategy_Propagate(i, outcome) ==
    IF outcome = "success" THEN [cpc |-> "finally", ret |-> "true"]
    ELSE IF outcome = "raised" THEN [cpc |-> "alternative", ret |-> "none"]
    ELSE IF i < 4 THEN [cpc |-> "strategy", ret |-> "none"]
    ELSE [cpc |-> "exhausted", ret |-> "none"]

\* AfterStrategy with a chain of three: the fallback is never tried.
AfterStrategy_SkipFallback(i, outcome) ==
    IF outcome = "success" THEN [cpc |-> "finally", ret |-> "true"]
    ELSE IF i < 3 THEN [cpc |-> "strategy", ret |-> "none"]
    ELSE [cpc |-> "exhausted", ret |-> "none"]

\* The chain executor's handling of one strategy's outcome (lines 123-137):
\* where the conversion goes next and what it returns.
AfterStrategy(i, outcome) ==
    IF outcome = "success" THEN [cpc |-> "finally", ret |-> "true"]
    ELSE IF i < 4 THEN [cpc |-> "strategy", ret |-> "none"]
    ELSE [cpc |-> "exhausted", ret |-> "none"]

\* ------------------------------------------------------------------ state

VARIABLES
    inputs,       \* the model files that exist in the models directory
    ckptOf,       \* what torch.load returns for each .ckpt file
    ptOf,         \* what YOLO() returns for each .pt file
    out,          \* the output directories and their files
    quantize,     \* BatchConverter.quantize
    run,          \* the number of the batch process running
    bpc,          \* where convert_all is
    models,       \* convert_all's list of scanned (path, type) pairs
    idx,          \* the position of convert_all's loop in models
    results,      \* BatchConverter.results
    summary,      \* what print_summary last printed
    resultsFile,  \* conversion_results.json
    modelIndex,   \* web/models_index.json
    insp,         \* inspect_checkpoint: where it is, its locals and what it reported
    is_valid,     \* the last result of validate_model
    cpc,          \* where ModelConverter.convert is
    conv,         \* the ModelConverter object, the locals of its conversion, and
                  \* history: via (the path that succeeded) and produced (whether
                  \* this conversion wrote model.json)
    strat,        \* the chain executor's loop index
    chain,        \* history: the strategies invoked by this conversion
    facts,        \* history: what happened in the conversion behind each result
    calls,        \* history: the paths convert_model was called with in this run
    succeeded,    \* history: the (path, run) pairs recorded as success
    wrote         \* history: which conversions of this run wrote into each directory

vars ==
    <<inputs, ckptOf, ptOf, out, quantize, run, bpc, models, idx, results, summary,
      resultsFile, modelIndex, insp, is_valid, cpc, conv, strat, chain, facts, calls,
      succeeded, wrote>>

\* What neither a conversion nor convert_all changes.
fileVars == <<ckptOf, ptOf, quantize, modelIndex, insp>>
batchVars == <<run, bpc, models, idx, results, summary, resultsFile>>
histVars == <<facts, calls, succeeded>>

NoPath == Path(<<>>, <<>>)

\* No conversion is running.
IdleConv ==
    [input |-> NoPath, output |-> <<>>, quantize |-> FALSE, temp_onnx_path |-> FALSE,
     checkpoint |-> NoCkpt, model_info |-> DefaultInfo, ret |-> "none",
     via |-> "none", produced |-> FALSE, exit_status |-> "none"]

\* ModelConverter.__init__ (lines 42-46): temp_onnx_path is None.
NewConv(input, output, q) ==
    [IdleConv EXCEPT !.input = input, !.output = output, !.quantize = q]

NoSummary == [run |-> 0, total |-> 0, successful |-> 0, failed |-> 0]
NoResultsFile == [run |-> 0, quantized |-> FALSE, results |-> <<>>]
NoIndex == [run |-> 0, total_models |-> 0, models |-> <<>>]

\* inspect_checkpoint is not running.  blob: what torch.load gives for the
\* file; checkpoint: the local of that name; the other fields are the locals
\* and the lines printed so far; ret: what the call returned.
NoInspection ==
    [pc |-> "idle",
     blob |-> [kind |-> "unloadable", items |-> [k \in {} |-> "none"]],
     checkpoint |-> [kind |-> "unloadable", items |-> [k \in {} |-> "none"]],
     structure |-> [k \in {} |-> [type |-> "none"]], found_model_keys |-> <<>>, potential_keys |-> {},
     found_classes |-> FALSE, suggestion |-> "none", ret |-> "none"]

Init ==
    /\ inputs \in DirectorySamples
    /\ ckptOf \in [{FileMCkpt, FileTCkpt} -> CheckpointSamples]
    /\ ckptOf[FileMCkpt] = NoCkpt \/ FileMCkpt \in inputs
    /\ ckptOf[FileTCkpt] = NoCkpt \/
          (FileTCkpt \in inputs /\ ckptOf[FileTCkpt] \in CheckpointSamplesSmall)
    /\ ptOf \in [{FileMPt} -> PtSamples]
    /\ ptOf[FileMPt] = NoPt \/ FileMPt \in inputs
    /\ quantize \in BOOLEAN
    /\ out = [d \in OutDirs |-> EmptyDir]
    /\ run = 1
    /\ bpc = "scan"
    /\ models = <<>>
    /\ idx = 1
    /\ results = <<>>
    /\ summary = NoSummary
    /\ resultsFile = NoResultsFile
    /\ modelIndex = NoIndex
    /\ insp = NoInspection
    /\ is_valid = "none"
    /\ cpc = "idle"
    /\ conv = IdleConv
    /\ strat = 0
    /\ chain = <<>>
    /\ facts = <<>>
    /\ calls = <<>>
    /\ succeeded = {}
    /\ wrote = [d \in OutDirs |-> {}]

\* --------------------------------------------------------- file contents

\* torch.load of a path: an interim file left by a failed torch.save holds no
\* loadable checkpoint.
CkptContent(p) == IF p \in DOMAIN ckptOf THEN ckptOf[p] ELSE NoCkpt
PtContent(p)   == IF p \in DOMAIN ptOf THEN ptOf[p] ELSE NoPt

\* Whether a path names an existing file.
FileExists(p) ==
    \/ p \in inputs
    \/ \E d \in OutDirs : p = TempPtFile(d) /\ out[d].tempPt
    \/ \E d \in OutDirs : p = TempOnnxFile(d) /\ out[d].tempOnnx

\* All sequences that list each element of S once: the orders in which rglob
\* may yield the files of one extension.
Orders(S) ==
    {q \in [1..Cardinality(S) -> S] : \A i, j \in 1..Cardinality(S) : q[i] = q[j] => i = j}

\* The files rglob('*<extension>') finds under the models directory, interim
\* files left in output directories included.
Globbed(extension) ==
    {p \in inputs : Suffix(p.name) = extension}
    \cup {TempPtFile(d) : d \in {e \in CandidateDirs : out[e].tempPt /\ extension = ExtPt}}
    \cup {TempOnnxFile(d) : d \in {e \in CandidateDirs : out[e].tempOnnx /\ extension = ExtOnnx}}

\* The already-converted test looking for model.json beside the model file
\* instead of in its output directory: it finds none.
AlreadyConverted_WrongDir(p) == FALSE

\* The already-converted test taking only a converted graph for a
\* conversion: the fallback's placeholder does not count.
AlreadyConverted_GraphOnly(p) == out[OutputDir(p)].model = "graph"

\* The already-converted test of scan_for_models (lines 45-48).
AlreadyConverted(p) == out[OutputDir(p)].model # "absent"

\* BatchConverter.scan_for_models: the lists it may return.
scan_for_models ==
    {[i \in 1..Len(q) |-> <<q[i], determine_model_type(q[i])>>] :
        q \in {a \o b \o c :
                 a \in Orders({p \in Globbed(ExtCkpt) : ~AlreadyConverted(p)}),
                 b \in Orders({p \in Globbed(ExtPt) : ~AlreadyConverted(p)}),
                 c \in Orders({p \in Globbed(ExtOnnx) : ~AlreadyConverted(p)})}}

\* ----------------------------------------------------- ModelConverter

\* ModelConverter._convert_pytorch, with convert()'s handler (lines 65-67)
\* turning an exception into False: [ret, dir, inputs, onnxSet, produced].
\* model.export writes next to the input file; the exported file, or any file
\* already at that path, is renamed to temp_onnx_path.
convert_pytorch(dir, files, input, pt, env) ==
    LET exported_onnx == WithSuffixOnnx(input)
        R(ret, d, f, set, produced) ==
            [ret |-> ret, dir |-> d, inputs |-> f, onnxSet |-> set, produced |-> produced]
    IN  IF ~pt.ok \/ env.yolo = "raise" THEN R("false", dir, files, FALSE, FALSE)
        ELSE IF env.export = "raise" THEN R("false", dir, files, TRUE, FALSE)
        ELSE IF env.export = "raise_file"
        THEN R("false", dir, files \cup {exported_onnx}, TRUE, FALSE)
        ELSE LET f1 == IF env.export = "file" THEN files \cup {exported_onnx} ELSE files
                 moved == exported_onnx \in f1
                 f2 == f1 \ {exported_onnx}
                 d1 == IF moved THEN [dir EXCEPT !.tempOnnx = TRUE] ELSE dir
                 r == convert_onnx(d1, d1.tempOnnx, env)
                 g == generate_classes_json(r.dir, pt, env.io)
                 produced == r.produced
             IN  IF ~r.success THEN R("false", r.dir, f2, TRUE, produced)
                 ELSE IF g.raised THEN R("false", g.dir, f2, TRUE, produced)
                 ELSE R("true", g.dir, f2, TRUE, produced)

\* The directory as one conversion step leaves it, and the record of who
\* wrote into it.
WriteDir(d) ==
    /\ out' = [out EXCEPT ![conv.output] = d]
    /\ wrote' = IF d # out[conv.output]
                THEN [wrote EXCEPT ![conv.output] = @ \cup {conv.input}]
                ELSE wrote

\* convert() handing a file of any other extension to _convert_onnx.
Convert_DefaultOnnx ==
    /\ cpc = "convert"
    /\ out' = [out EXCEPT ![conv.output].exists = TRUE]
    /\ LET suffix == Suffix(conv.input.name)
       IN  IF suffix = ExtPt THEN cpc' = "pytorch" /\ conv' = conv
           ELSE IF suffix = ExtCkpt THEN cpc' = "load" /\ conv' = conv
           ELSE cpc' = "onnx" /\ conv' = conv
    /\ UNCHANGED <<inputs, fileVars, batchVars, is_valid, strat, chain, histVars, wrote>>

\* convert(): create the output directory and dispatch on the extension
\* (lines 50-63).
Convert ==
    /\ cpc = "convert"
    /\ out' = [out EXCEPT ![conv.output].exists = TRUE]
    /\ LET suffix == Suffix(conv.input.name)
       IN  IF suffix = ExtPt THEN cpc' = "pytorch" /\ conv' = conv
           ELSE IF suffix = ExtCkpt THEN cpc' = "load" /\ conv' = conv
           ELSE IF suffix = ExtOnnx THEN cpc' = "onnx" /\ conv' = conv
           ELSE cpc' = "finally" /\ conv' = [conv EXCEPT !.ret = "false"]
    /\ UNCHANGED <<inputs, fileVars, batchVars, is_valid, strat, chain, histVars, wrote>>

ConvertPytorch ==
    /\ cpc = "pytorch"
    /\ \E env \in EnvExport :
          LET r == convert_pytorch(out[conv.output], inputs, conv.input,
                                   PtContent(conv.input), env)
          IN  /\ WriteDir(r.dir)
              /\ inputs' = r.inputs
              /\ conv' = [conv EXCEPT !.ret = r.ret, !.temp_onnx_path = r.onnxSet,
                                      !.produced = r.produced,
                                      !.via = IF r.ret = "true" THEN "pytorch" ELSE @]
    /\ cpc' = "finally"
    /\ UNCHANGED <<fileVars, batchVars, is_valid, strat, chain, histVars>>

\* convert() on an .onnx input: _convert_onnx() on the input file itself.
ConvertOnnx ==
    /\ cpc = "onnx"
    /\ \E env \in EnvTfjs :
          LET r == convert_onnx(out[conv.output], FileExists(conv.input), env)
          IN  /\ WriteDir(r.dir)
              /\ conv' = [conv EXCEPT !.ret = IF r.success THEN "true" ELSE "false",
                                      !.produced = r.produced,
                                      !.exit_status = r.exit,
                                      !.via = IF r.success THEN "onnx" ELSE @]
    /\ cpc' = "finally"
    /\ UNCHANGED <<inputs, fileVars, batchVars, is_valid, strat, chain, histVars>>

\* _convert_yolov7_checkpoint up to the chain (lines 102-113): torch.load and
\* _extract_yolov7_info.  An exception of either goes to the handler of
\* line 139.
LoadCheckpoint ==
    /\ cpc = "load"
    /\ LET checkpoint == CkptContent(conv.input)
       IN  IF checkpoint.shape = "corrupt" \/ ~SupportsIn(checkpoint)
           THEN cpc' = "alternative" /\ conv' = conv /\ strat' = strat
           ELSE /\ cpc' = "strategy"
                /\ strat' = 1
                /\ conv' = [conv EXCEPT
                              !.checkpoint = checkpoint,
                              !.model_info = extract_yolov7_info(checkpoint, conv.input.name)]
    /\ UNCHANGED <<inputs, fileVars, out, batchVars, is_valid, chain, histVars, wrote>>

\* One turn of the chain executor's loop (lines 123-132): strategy i was
\* called and gave r.
StrategyStep(i, name, r) ==
    LET next == AfterStrategy(i, r.outcome)
    IN  /\ WriteDir(r.dir)
        /\ chain' = Append(chain, [strategy |-> i, outcome |-> r.outcome])
        /\ cpc' = next.cpc
        /\ strat' = IF next.cpc = "strategy" THEN i + 1 ELSE i
        /\ conv' = [conv EXCEPT
                      !.ret = next.ret,
                      !.temp_onnx_path = @ \/ r.onnxSet,
                      !.produced = @ \/ r.produced,
                      !.via = IF r.outcome = "success" THEN name ELSE @]
        /\ UNCHANGED <<inputs, fileVars, batchVars, is_valid, histVars>>

StrategyUltralyticsExport ==
    /\ cpc = "strategy" /\ strat = 1
    /\ \E env \in EnvExport :
          StrategyStep(1, "standard",
              strategy_ultralytics_export(out[conv.output], conv.checkpoint,
                                          conv.model_info, env))

StrategyDirectOnnxExport ==
    /\ cpc = "strategy" /\ strat = 2
    /\ StrategyStep(2, "direct",
           strategy_direct_onnx_export(out[conv.output], conv.checkpoint,
                                       conv.model_info, QuietEnv))

StrategyManualReconstruction ==
    /\ cpc = "strategy" /\ strat = 3
    /\ StrategyStep(3, "manual",
           strategy_manual_reconstruction(out[conv.output], conv.checkpoint,
                                          conv.model_info, QuietEnv))

StrategyFallbackConversion ==
    /\ cpc = "strategy" /\ strat = 4
    /\ \E env \in EnvWrite :
          StrategyStep(4, "fallback",
              strategy_fallback_conversion(out[conv.output], conv.checkpoint,
                                           conv.model_info, env))

\* Every strategy failed (lines 134-137): write the descriptor, return False.
AllStrategiesFailed ==
    /\ cpc = "exhausted"
    /\ \E env \in EnvWrite :
          WriteDir(generate_yolov7_classes_json(out[conv.output], conv.model_info,
                                                env.io))
    /\ conv' = [conv EXCEPT !.ret = "false"]
    /\ cpc' = "finally"
    /\ UNCHANGED <<inputs, fileVars, batchVars, is_valid, strat, chain, histVars>>

\* ModelConverter._convert_yolov7_alternative: load again; when that works,
\* write the default descriptor; return False either way.
ConvertAlternative ==
    /\ cpc = "alternative"
    /\ \E env \in EnvWrite :
          IF CkptContent(conv.input).shape = "corrupt" \/ env.reload = "raise"
          THEN WriteDir(out[conv.output])
          ELSE WriteDir(generate_yolov7_classes_json(out[conv.output], DefaultInfo,
                                                     env.io))
    /\ conv' = [conv EXCEPT !.ret = "false"]
    /\ cpc' = "finally"
    /\ UNCHANGED <<inputs, fileVars, batchVars, is_valid, strat, chain, histVars>>

\* convert()'s finally block (lines 68-71).
ConvertFinally ==
    /\ cpc = "finally"
    /\ IF conv.temp_onnx_path /\ out[conv.output].tempOnnx
       THEN WriteDir([out[conv.output] EXCEPT !.tempOnnx = FALSE])
       ELSE WriteDir(out[conv.output])
    /\ cpc' = "returned"
    /\ UNCHANGED <<inputs, fileVars, batchVars, is_valid, conv, strat, chain, histVars>>

\* ------------------------------------------------------- BatchConverter

SuccessRecord(p, type, output_dir, q) ==
    [model |-> p.name, type |-> type, status |-> "success", output_dir |-> output_dir,
     size_mb |-> "float", conversion_time |-> "float", quantized |-> q]

FailureRecord(p, type, status, error) ==
    [model |-> p.name, type |-> type, status |-> status, error |-> error]

\* BuildResult with the two branches of the validity test exchanged.
BuildResult_Swapped(p, type, ret, valid, sizeRaised, output_dir, q) ==
    IF ret = "raised" THEN FailureRecord(p, type, "error", "exception")
    ELSE IF ret = "true"
    THEN IF ~valid
         THEN IF sizeRaised THEN FailureRecord(p, type, "error", "exception")
              ELSE SuccessRecord(p, type, output_dir, q)
         ELSE FailureRecord(p, type, "validation_failed", "Model validation failed")
    ELSE FailureRecord(p, type, "conversion_failed", "Model conversion failed")

\* The result convert_model builds (lines 97-140).  ret: what convert() did
\* ("true", "false", "raised"); valid: what validate_model returned;
\* sizeRaised: whether calculate_model_size raised.
BuildResult(p, type, ret, valid, sizeRaised, output_dir, q) ==
    IF ret = "raised" THEN FailureRecord(p, type, "error", "exception")
    ELSE IF ret = "true"
    THEN IF valid
         THEN IF sizeRaised THEN FailureRecord(p, type, "error", "exception")
              ELSE SuccessRecord(p, type, output_dir, q)
         ELSE FailureRecord(p, type, "validation_failed", "Model validation failed")
    ELSE FailureRecord(p, type, "conversion_failed", "Model conversion failed")

\* convert_all up to its loop (lines 156-170): scan, and return when the
\* scan found nothing.
ConvertAllStart ==
    /\ bpc = "scan"
    /\ \E found \in scan_for_models :
          /\ models' = found
          /\ bpc' = IF Len(found) = 0 THEN "done" ELSE "loop"
    /\ idx' = 1
    /\ UNCHANGED <<inputs, fileVars, out, run, results, summary, resultsFile, is_valid,
                   cpc, conv, strat, chain, histVars, wrote>>

\* convert_model up to the call of convert() (lines 83-93).
ConvertModelBegin ==
    /\ bpc = "loop"
    /\ idx <= Len(models)
    /\ cpc = "idle"
    /\ conv' = NewConv(models[idx][1], OutputDir(models[idx][1]), quantize)
    /\ cpc' = "convert"
    /\ bpc' = "converting"
    /\ calls' = Append(calls, models[idx][1])
    /\ chain' = <<>>
    /\ strat' = 0
    /\ is_valid' = "none"
    /\ UNCHANGED <<inputs, fileVars, out, run, models, idx, results, summary, resultsFile,
                   facts, succeeded, wrote>>

\* ConvertModelEnd without the handler of lines 133-140: an exception in
\* convert_model ends convert_all before the result is appended.
ConvertModelEnd_Abort ==
    /\ bpc = "converting"
    /\ cpc = "returned"
    /\ \E env \in EnvSize :
          LET valid == validate_model(out[conv.output])
              sizeCalled == conv.ret = "true" /\ valid
              sizeRaised == sizeCalled /\ env.size = "raise"
              result == BuildResult(conv.input, models[idx][2], conv.ret, valid,
                                    sizeRaised, conv.output, quantize)
          IN  /\ results' = IF sizeRaised THEN results ELSE Append(results, result)
              /\ is_valid' = IF conv.ret # "true" THEN "none"
                             ELSE IF valid THEN "true" ELSE "false"
              /\ facts' = IF sizeRaised THEN facts
                          ELSE Append(facts,
                                 [path |-> conv.input, ret |-> conv.ret,
                                  valid |-> is_valid', sizeRaised |-> sizeRaised,
                                  via |-> conv.via, produced |-> conv.produced,
                                  model |-> out[conv.output].model,
                                  model_info |-> conv.model_info])
              /\ succeeded' = IF result.status = "success"
                              THEN succeeded \cup {[path |-> conv.input, run |-> run]}
                              ELSE succeeded
              /\ idx' = IF sizeRaised THEN idx ELSE idx + 1
              /\ bpc' = IF sizeRaised THEN "done" ELSE "loop"
    /\ cpc' = "idle"
    /\ conv' = IdleConv
    /\ chain' = <<>>
    /\ strat' = 0
    /\ UNCHANGED <<inputs, fileVars, out, run, models, summary, resultsFile, calls, wrote>>

\* convert_model after convert() returned (lines 95-142), and the append of
\* convert_all's loop (line 174).
ConvertModelEnd ==
    /\ bpc = "converting"
    /\ cpc = "returned"
    /\ \E env \in EnvSize :
          LET valid == validate_model(out[conv.output])
              sizeCalled == conv.ret = "true" /\ valid
              sizeRaised == sizeCalled /\ env.size = "raise"
              result == BuildResult(conv.input, models[idx][2], conv.ret, valid,
                                    sizeRaised, conv.output, quantize)
          IN  /\ results' = Append(results, result)
              /\ is_valid' = IF conv.ret # "true" THEN "none"
                             ELSE IF valid THEN "true" ELSE "false"
              /\ facts' = Append(facts,
                            [path |-> conv.input, ret |-> conv.ret,
                             valid |-> is_valid', sizeRaised |-> sizeRaised,
                             via |-> conv.via, produced |-> conv.produced,
                             model |-> out[conv.output].model,
                             model_info |-> conv.model_info])
              /\ succeeded' = IF result.status = "success"
                              THEN succeeded \cup {[path |-> conv.input, run |-> run]}
                              ELSE succeeded
    /\ idx' = idx + 1
    /\ bpc' = "loop"
    /\ cpc' = "idle"
    /\ conv' = IdleConv
    /\ chain' = <<>>
    /\ strat' = 0
    /\ UNCHANGED <<inputs, fileVars, out, run, models, summary, resultsFile, calls, wrote>>

\* The number of results with the given status test.
CountSuccess(rs) == Cardinality({i \in 1..Len(rs) : rs[i].status = "success"})

\* print_summary (lines 184-211), at the end of convert_all's loop.
PrintSummary ==
    /\ bpc = "loop"
    /\ idx > Len(models)
    /\ summary' = [run |-> run, total |-> Len(results),
                   successful |-> CountSuccess(results),
                   failed |-> Len(results) - CountSuccess(results)]
    /\ bpc' = "save"
    /\ UNCHANGED <<inputs, fileVars, out, run, models, idx, results, resultsFile,
                   is_valid, cpc, conv, strat, chain, histVars, wrote>>

\* save_results (lines 213-224).
SaveResults ==
    /\ bpc = "save"
    /\ resultsFile' = [run |-> run, quantized |-> quantize, results |-> results]
    /\ bpc' = "done"
    /\ UNCHANGED <<inputs, fileVars, out, run, models, idx, results, summary,
                   is_valid, cpc, conv, strat, chain, histVars, wrote>>

\* The entry generate_model_index builds for a successful result
\* (lines 242-251).
IndexEntry(result) ==
    [id |-> Stem(result.model), name |-> result.model, type |-> result.type,
     dir_name |-> result.output_dir[Len(result.output_dir)],
     quantized |-> result.quantized,
     performance_tier |-> get_performance_tier(result.type)]

\* generate_model_index, which main() calls after convert_all when the index
\* was asked for (lines 294-295).  It writes nothing when no result is a
\* success.
GenerateModelIndex ==
    /\ bpc = "done"
    /\ LET successful_models == SelectSeq(results, LAMBDA r : r.status = "success")
       IN  /\ Len(successful_models) > 0
           /\ modelIndex' =
                 [run |-> run, total_models |-> Len(successful_models),
                  models |-> [i \in 1..Len(successful_models) |->
                                IndexEntry(successful_models[i])]]
    /\ UNCHANGED <<inputs, ckptOf, ptOf, quantize, insp, out, batchVars, is_valid, cpc,
                   conv, strat, chain, histVars, wrote>>

\* The batch script is started again on the same directory: a new
\* BatchConverter (lines 28-31).
NextRun ==
    /\ bpc = "done"
    /\ run < MaxRuns
    /\ run' = run + 1
    /\ bpc' = "scan"
    /\ models' = <<>>
    /\ idx' = 1
    /\ results' = <<>>
    /\ facts' = <<>>
    /\ calls' = <<>>
    /\ wrote' = [d \in OutDirs |-> {}]
    /\ is_valid' = "none"
    /\ UNCHANGED <<inputs, fileVars, out, summary, resultsFile, cpc, conv, strat, chain,
                   succeeded>>

Next ==
    \/ ConvertAllStart
    \/ ConvertModelBegin
    \/ Convert
    \/ ConvertPytorch
    \/ ConvertOnnx
    \/ LoadCheckpoint
    \/ StrategyUltralyticsExport
    \/ StrategyDirectOnnxExport
    \/ StrategyManualReconstruction
    \/ StrategyFallbackConversion
    \/ AllStrategiesFailed
    \/ ConvertAlternative
    \/ ConvertFinally
    \/ ConvertModelEnd
    \/ PrintSummary
    \/ SaveResults
    \/ GenerateModelIndex

Spec == Init /\ [][Next]_vars

\* The batch script run again and again over the same directory, from fewer
\* starting directories.
RerunDirectories ==
    { {FileMCkpt}, {FileMPt}, {FileMCkpt, FileMOnnx}, {FileMPt, FileMOnnx},
      {FileTCkpt, FileMOnnx} }

InitRerun ==
    /\ Init
    /\ inputs \in RerunDirectories
    /\ ckptOf[FileMCkpt] \in CheckpointSamplesSmall

NextRerun == Next \/ NextRun

SpecRerun == InitRerun /\ [][NextRerun]_vars

\* The program keeps running: no step waits for anything but its own turn.
FairSpec == Spec /\ WF_vars(Next)

\* ----------------------------------------- validate_model on any directory

\* The directory validate_model is called on.
ValidatedDir == OutputDir(FileMCkpt)

\* What a classes.json may hold: nothing a converter wrote is assumed.
JsonArray(elems) == [kind |-> "array", elems |-> elems]
JsonString(text) == [kind |-> "string", text |-> text]
JsonScalar       == [kind |-> "scalar"]

ClassesSamples ==
    { Absent, Malformed, JsonScalar,
      YoloV7Config(DefaultInfo),
      YoloV7Config([DefaultInfo EXCEPT !.classes = PyNone]),
      YoloV7Config([DefaultInfo EXCEPT !.classes = PyList(<<>>)]),
      YoloV5Config(NoPt),
      MinimalConfig,
      JsonObject([modelType |-> "yolo"]),
      JsonObject([names |-> JsonOf(PyList(<<"weed">>))]),
      JsonArray({}), JsonArray({"classes"}), JsonArray({"crop", "weed"}),
      JsonString(S_classes), JsonString(<<"x">> \o S_classes), JsonString(S_tiny) }

ModelSamples == {"absent", "graph", "placeholder", "malformed"}

InitValidate ==
    /\ inputs = {}
    /\ ckptOf = [p \in {FileMCkpt, FileTCkpt} |-> NoCkpt]
    /\ ptOf = [p \in {FileMPt} |-> NoPt]
    /\ quantize = FALSE
    /\ \E m \in ModelSamples, c \in ClassesSamples :
          out = [d \in OutDirs |->
                   IF d = ValidatedDir
                   THEN [EmptyDir EXCEPT !.exists = TRUE, !.model = m, !.classes = c]
                   ELSE EmptyDir]
    /\ run = 1
    /\ bpc = "validate"
    /\ models = <<>>
    /\ idx = 1
    /\ results = <<>>
    /\ summary = NoSummary
    /\ resultsFile = NoResultsFile
    /\ modelIndex = NoIndex
    /\ insp = NoInspection
    /\ is_valid = "none"
    /\ cpc = "idle"
    /\ conv = IdleConv
    /\ strat = 0
    /\ chain = <<>>
    /\ facts = <<>>
    /\ calls = <<>>
    /\ succeeded = {}
    /\ wrote = [d \in OutDirs |-> {}]

\* A call of validate_model.
ValidateDirectory ==
    /\ bpc = "validate"
    /\ is_valid' = IF validate_model(out[ValidatedDir]) THEN "true" ELSE "false"
    /\ bpc' = "validated"
    /\ UNCHANGED <<inputs, fileVars, out, run, models, idx, results, summary, resultsFile,
                   cpc, conv, strat, chain, histVars, wrote>>

NextValidate == ValidateDirectory

SpecValidate == InitValidate /\ [][NextValidate]_vars

\* ----------------------------------------------- the classifier on names

\* A second directory under the models directory.
SubDir == Append(ModelsDir, <<"x">>)

\* File names for the classifier: the variants alone and combined, in either
\* case, with each extension, and names of no family.
ClassifyNames ==
    { <<"y", "o", "l", "o", "v", "7", "-", "t", "i", "n", "y", ".", "c", "k", "p", "t">>,
      <<"y", "o", "l", "o", "v", "7", "-", "t", "i", "n", "y", "-", "x", ".", "c", "k", "p", "t">>,
      <<"y", "o", "l", "o", "v", "7", "x", "-", "e", "6", ".", "c", "k", "p", "t">>,
      <<"y", "o", "l", "o", "v", "7", "-", "e", "6", ".", "c", "k", "p", "t">>,
      <<"y", "o", "l", "o", "v", "7", "-", "e", "6", "-", "1", "2", "8", "0", ".", "c", "k", "p", "t">>,
      <<"y", "o", "l", "o", "v", "7", "-", "1", "2", "8", "0", ".", "c", "k", "p", "t">>,
      <<"b", "e", "s", "t", ".", "c", "k", "p", "t">>,
      <<"T", "i", "n", "y", "-", "e", "6", "-", "1", "2", "8", "0", ".", "c", "k", "p", "t">>,
      <<"y", "o", "l", "o", "v", "5", "s", ".", "c", "k", "p", "t">>,
      <<"y", "o", "l", "o", "v", "7", ".", "p", "t">>,
      <<"y", "o", "l", "o", "v", "7", "X", ".", "p", "t">>,
      <<"y", "o", "l", "o", "v", "7", "-", "e", "6", ".", "o", "n", "n", "x">>,
      <<"y", "o", "l", "o", "v", "5", "s", ".", "p", "t">>,
      <<"y", "o", "l", "o", "v", "5", "m", ".", "p", "t">>,
      <<"y", "o", "l", "o", "v", "5", "l", ".", "p", "t">>,
      <<"y", "o", "l", "o", "v", "5", "m", "s", ".", "p", "t">>,
      <<"y", "o", "l", "o", "v", "5", ".", "p", "t">>,
      <<"y", "o", "l", "o", "v", "5", ".", "o", "n", "n", "x">>,
      <<"y", "o", "l", "o", "v", "8", "n", ".", "p", "t">>,
      <<"y", "o", "l", "o", "v", "8", ".", "o", "n", "n", "x">>,
      <<"m", "o", "d", "e", "l", ".", "o", "n", "n", "x">> }

ClassifyFiles == {Path(d, n) : d \in {ModelsDir, SubDir}, n \in ClassifyNames}

ClassifyDirs == OutDirs \cup {OutputDir(p) : p \in ClassifyFiles}

\* The checkpoints of the two directories differ: the first holds a model
\* and a names mapping, the second only a classes list, or an object that is
\* no container.
ClassifyCkpt(p, second) ==
    IF p.dir = ModelsDir
    THEN Ckpt("dict", {"model", "names"}, [NoData EXCEPT !["model"] = "module"],
              PyDict(<<"crop", "weed">>))
    ELSE second

ClassifySecond ==
    { Ckpt("dict", {"classes"}, NoData, PyList(<<"weed">>)),
      Ckpt("opaque", {}, NoData, PyNone) }

\* One file name, present in both directories.
InitClassify ==
    /\ \E n \in ClassifyNames : inputs = {Path(ModelsDir, n), Path(SubDir, n)}
    /\ \E second \in ClassifySecond :
          ckptOf = [p \in ClassifyFiles |-> ClassifyCkpt(p, second)]
    /\ ptOf = [p \in ClassifyFiles |->
                 [ok |-> TRUE, hasNames |-> TRUE, names |-> PyDict(<<"crop", "weed">>)]]
    /\ quantize \in BOOLEAN
    /\ out = [d \in ClassifyDirs |-> EmptyDir]
    /\ run = 1
    /\ bpc = "scan"
    /\ models = <<>>
    /\ idx = 1
    /\ results = <<>>
    /\ summary = NoSummary
    /\ resultsFile = NoResultsFile
    /\ modelIndex = NoIndex
    /\ insp = NoInspection
    /\ is_valid = "none"
    /\ cpc = "idle"
    /\ conv = IdleConv
    /\ strat = 0
    /\ chain = <<>>
    /\ facts = <<>>
    /\ calls = <<>>
    /\ succeeded = {}
    /\ wrote = [d \in ClassifyDirs |-> {}]

SpecClassify == InitClassify /\ [][Next]_vars

\* ------------------------------------- convert_model.py on the command line

\* The file names --input may carry: the three supported extensions, and
\* names whose extension is another one, is in upper case, is missing, is the
\* whole name, or is followed by another extension.
MainNames ==
    { <<"m", ".", "c", "k", "p", "t">>,
      <<"m", ".", "p", "t">>,
      <<"m", ".", "o", "n", "n", "x">>,
      <<"m", ".", "P", "T">>,
      <<"m", ".", "t", "x", "t">>,
      <<"m", ".", "p", "t", "h">>,
      <<"m">>,
      <<".", "p", "t">>,
      <<"m", ".", "p", "t", ".", "b", "a", "k">> }

MainFiles == {Path(ModelsDir, n) : n \in MainNames}

\* --output
MainOutput == OutputDir(FileMCkpt)

\* What --output may hold before the conversion: nothing, or the files of an
\* earlier conversion that ended in a converted graph or in the fallback's
\* placeholder.
MainOutputSamples ==
    { EmptyDir,
      [EmptyDir EXCEPT !.exists = TRUE, !.model = "graph",
                       !.classes = JsonObject(YoloV7Config(DefaultInfo))],
      [EmptyDir EXCEPT !.exists = TRUE, !.model = "placeholder",
                       !.classes = JsonObject(YoloV7Config(DefaultInfo))] }

\* main() up to the construction of the converter (lines 492-506): the input
\* file exists, alone or with an .onnx file of the same stem next to it.
InitMain ==
    /\ quantize \in BOOLEAN
    /\ \E p \in MainFiles :
          /\ inputs \in {{p}, {p, WithSuffixOnnx(p)}}
          /\ conv = NewConv(p, MainOutput, quantize)
          /\ ckptOf \in [{FileMCkpt, FileTCkpt} -> CheckpointSamples]
          /\ ckptOf[FileTCkpt] = NoCkpt
          /\ ckptOf[FileMCkpt] = NoCkpt \/ p = FileMCkpt
          /\ ptOf \in [{FileMPt} -> PtSamples]
          /\ ptOf[FileMPt] = NoPt \/ p = FileMPt
    /\ \E d \in MainOutputSamples : out = [o \in OutDirs |-> IF o = MainOutput THEN d ELSE EmptyDir]
    /\ run = 1
    /\ bpc = "main"
    /\ models = <<>>
    /\ idx = 1
    /\ results = <<>>
    /\ summary = NoSummary
    /\ resultsFile = NoResultsFile
    /\ modelIndex = NoIndex
    /\ insp = NoInspection
    /\ is_valid = "none"
    /\ cpc = "convert"
    /\ strat = 0
    /\ chain = <<>>
    /\ facts = <<>>
    /\ calls = <<>>
    /\ succeeded = {}
    /\ wrote = [d \in OutDirs |-> {}]

\* main() after convert() (lines 509-525): validate when --validate was
\* given, exit with status 1 on failure.
MainEnd ==
    /\ bpc = "main"
    /\ cpc = "returned"
    /\ IF conv.ret = "true"
       THEN /\ bpc' = "exit0"
            /\ \E validate \in BOOLEAN :
                  is_valid' = IF ~validate THEN "none"
                              ELSE IF validate_model(out[conv.output]) THEN "true"
                              ELSE "false"
       ELSE bpc' = "exit1" /\ is_valid' = is_valid
    /\ UNCHANGED <<inputs, fileVars, out, run, models, idx, results, summary, resultsFile,
                   cpc, conv, strat, chain, histVars, wrote>>

NextMain ==
    \/ Convert
    \/ ConvertPytorch
    \/ ConvertOnnx
    \/ LoadCheckpoint
    \/ StrategyUltralyticsExport
    \/ StrategyDirectOnnxExport
    \/ StrategyManualReconstruction
    \/ StrategyFallbackConversion
    \/ AllStrategiesFailed
    \/ ConvertAlternative
    \/ ConvertFinally
    \/ MainEnd

SpecMain == InitMain /\ [][NextMain]_vars

\* ------------------------------------------------- inspect_checkpoint.py

\* The values a loaded checkpoint may hold under a key, by what the
\* inspector asks of them: an int, a str, None, an nn.Module (which has
\* state_dict), a tensor of no dimension, a tensor of two dimensions, a list,
\* a dict of parameter tensors {'weight': ...}, a dict {'names': [...]}.
ValueKinds ==
    {"int", "str", "none", "module", "tensor0", "tensor2", "list", "dict", "dict_names"}

IsTensor(v) == v \in {"tensor0", "tensor2"}
IsDict(v) == v \in {"dict", "dict_names"}

\* str(value.keys()).lower() of a dict value, as its characters.
KeysText(v) ==
    IF v = "dict_names" THEN <<"d", "i", "c", "t", "_", "k", "e", "y", "s", "(", "[", "'", "n", "a", "m", "e", "s", "'", "]", ")">>
    ELSE <<"d", "i", "c", "t", "_", "k", "e", "y", "s", "(", "[", "'", "w", "e", "i", "g", "h", "t", "'", "]", ")">>

\* The keys the samples draw from: the model keys, two metadata keys, two
\* class keys, and a key the inspector does not know.
InspectKeys == {"model", "ema", "state_dict", "net", "epoch", "names", "classes", "weights"}

MaxKeys == 2

\* What torch.load may give: a dict of at most MaxKeys keys, or an object
\* that is no dict (a tensor, a list, a module, None).
InspectBlobs ==
    {[kind |-> "dict", items |-> f] :
        f \in UNION {[D -> ValueKinds] :
                        D \in {D \in SUBSET InspectKeys : Cardinality(D) <= MaxKeys}}}
    \cup {[kind |-> k, items |-> [key \in {} |-> "none"]] :
             k \in {"tensor", "list", "module", "none"}}

\* explore_dict_structure at the top level: the entry of each key, by the
\* branch taken for its value; the last branch gives type(value).__name__.
explore_dict_structure(obj) ==
    IF obj.kind # "dict" THEN [k \in {} |-> [type |-> "none"]]
    ELSE [k \in DOMAIN obj.items |->
            LET value == obj.items[k]
            IN  IF IsTensor(value) THEN [type |-> "Tensor"]
                ELSE IF IsDict(value) THEN [type |-> "Dict"]
                ELSE [type |-> CASE value = "int" -> "int"
                                 [] value = "str" -> "str"
                                 [] value = "none" -> "NoneType"
                                 [] value = "module" -> "Model"
                                 [] value = "list" -> "list"]]

model_keys == <<"model", "ema", "state_dict", "net">>
metadata_keys ==
    <<"epoch", "best_fitness", "model", "optimizer", "lr_scheduler", "date", "names">>
class_keys == <<"names", "class_names", "classes">>

\* any('weight' in k or 'bias' in k for k in str(value.keys()).lower()): the
\* loop variable runs over the characters of the string.
AnyWeightOrBias(value) ==
    LET text == KeysText(value)
    IN  \E i \in 1..Len(text) :
            \/ Contains(<<text[i]>>, <<"w", "e", "i", "g", "h", "t">>)
            \/ Contains(<<text[i]>>, <<"b", "i", "a", "s">>)

\* The metadata line of one key (lines 158-165) raises: the value is no int,
\* float or str and not the names dict, it has __len__, and len() of it
\* raises, as torch.Tensor.__len__ does on a tensor of no dimension.
MetadataRaises(items, key) ==
    /\ key \in DOMAIN items
    /\ LET value == items[key]
           hasLen == value \in {"str", "list", "dict", "dict_names", "tensor0", "tensor2"}
           lenRaises == value = "tensor0"
       IN  /\ value \notin {"int", "str"}
           /\ ~(IsDict(value) /\ key = "names")
           /\ hasLen /\ lenRaises

\* Lines 64-89: the file is loaded; a load that raises returns None, an
\* object that is no dict is reported as unexpected and returned.
InspectLoad ==
    /\ insp.pc = "start"
    /\ IF insp.blob.kind = "unloadable"
       THEN insp' = [insp EXCEPT !.pc = "returned", !.ret = "None"]
       ELSE IF insp.blob.kind # "dict"
       THEN insp' = [insp EXCEPT !.pc = "returned", !.checkpoint = insp.blob,
                                 !.suggestion = "unexpected", !.ret = "checkpoint"]
       ELSE insp' = [insp EXCEPT !.pc = "structure", !.checkpoint = insp.blob]
    /\ UNCHANGED <<inputs, ckptOf, ptOf, quantize, modelIndex, out, batchVars, is_valid,
                   cpc, conv, strat, chain, histVars, wrote>>

\* Lines 90-112.
InspectStructure ==
    /\ insp.pc = "structure"
    /\ insp' = [insp EXCEPT !.pc = "model",
                            !.structure = explore_dict_structure(insp.checkpoint)]
    /\ UNCHANGED <<inputs, ckptOf, ptOf, quantize, modelIndex, out, batchVars, is_valid,
                   cpc, conv, strat, chain, histVars, wrote>>

\* Lines 114-150.
InspectModelInformation ==
    /\ insp.pc = "model"
    /\ LET items == insp.checkpoint.items
           found == SelectSeq(model_keys, LAMBDA key : key \in DOMAIN items)
       IN  insp' = [insp EXCEPT
                      !.pc = "metadata",
                      !.found_model_keys = found,
                      !.potential_keys =
                          IF found # <<>> THEN {}
                          ELSE {key \in DOMAIN items :
                                  \/ items[key] = "tensor2"
                                  \/ IsDict(items[key]) /\ AnyWeightOrBias(items[key])}]
    /\ UNCHANGED <<inputs, ckptOf, ptOf, quantize, modelIndex, out, batchVars, is_valid,
                   cpc, conv, strat, chain, histVars, wrote>>

\* Lines 152-165.
InspectTrainingMetadata ==
    /\ insp.pc = "metadata"
    /\ IF \E i \in 1..Len(metadata_keys) :
             MetadataRaises(insp.checkpoint.items, metadata_keys[i])
       THEN insp' = [insp EXCEPT !.pc = "raised", !.ret = "raised"]
       ELSE insp' = [insp EXCEPT !.pc = "classes"]
    /\ UNCHANGED <<inputs, ckptOf, ptOf, quantize, modelIndex, out, batchVars, is_valid,
                   cpc, conv, strat, chain, histVars, wrote>>

\* Lines 167-189.
InspectClassInformation ==
    /\ insp.pc = "classes"
    /\ LET items == insp.checkpoint.items
       IN  insp' = [insp EXCEPT
                      !.pc = "suggest",
                      !.found_classes =
                          \/ \E i \in 1..Len(class_keys) : class_keys[i] \in DOMAIN items
                          \/ \E key \in DOMAIN items :
                                items[key] = "dict_names"]
    /\ UNCHANGED <<inputs, ckptOf, ptOf, quantize, modelIndex, out, batchVars, is_valid,
                   cpc, conv, strat, chain, histVars, wrote>>

\* Lines 191-205.
InspectSuggestions ==
    /\ insp.pc = "suggest"
    /\ LET keys == DOMAIN insp.checkpoint.items
       IN  insp' = [insp EXCEPT
                      !.pc = "returned",
                      !.ret = "checkpoint",
                      !.suggestion = IF "model" \in keys THEN "standard"
                                     ELSE IF "ema" \in keys THEN "ema"
                                     ELSE IF "state_dict" \in keys THEN "state_dict"
                                     ELSE "non_standard"]
    /\ UNCHANGED <<inputs, ckptOf, ptOf, quantize, modelIndex, out, batchVars, is_valid,
                   cpc, conv, strat, chain, histVars, wrote>>

\* The dict torch.load gave the inspector as the converter's torch.load gives
\* it to the strategies: under each model key None, an object with a
\* state_dict method, or any other value, which the strategy takes for raw
\* weights.
CkptOfBlob(b) ==
    Ckpt(IF b.kind = "dict" THEN "dict" ELSE "opaque",
         DOMAIN b.items,
         [k \in {"model", "ema", "state_dict"} |->
             IF k \notin DOMAIN b.items \/ b.items[k] = "none" THEN "none"
             ELSE IF b.items[k] = "module" THEN "module"
             ELSE "weights"],
         PyNone)

\* inspect_checkpoint called on m.ckpt, which exists.
InitInspect ==
    /\ inputs = {FileMCkpt}
    /\ ckptOf = [p \in {FileMCkpt, FileTCkpt} |-> NoCkpt]
    /\ ptOf = [p \in {FileMPt} |-> NoPt]
    /\ quantize = FALSE
    /\ out = [d \in OutDirs |-> EmptyDir]
    /\ run = 1
    /\ bpc = "inspect"
    /\ models = <<>>
    /\ idx = 1
    /\ results = <<>>
    /\ summary = NoSummary
    /\ resultsFile = NoResultsFile
    /\ modelIndex = NoIndex
    /\ \E b \in InspectBlobs \cup {NoInspection.blob} :
          insp = [NoInspection EXCEPT !.pc = "start", !.blob = b]
    /\ is_valid = "none"
    /\ cpc = "idle"
    /\ conv = IdleConv
    /\ strat = 0
    /\ chain = <<>>
    /\ facts = <<>>
    /\ calls = <<>>
    /\ succeeded = {}
    /\ wrote = [d \in OutDirs |-> {}]

NextInspect ==
    \/ InspectLoad
    \/ InspectStructure
    \/ InspectModelInformation
    \/ InspectTrainingMetadata
    \/ InspectClassInformation
    \/ InspectSuggestions

SpecInspect == InitInspect /\ [][NextInspect]_vars

\* ------------------------------------------------------------------ claims

\* The conversion at hand is of a .ckpt file whose checkpoint loaded.
LoadedCkpt ==
    /\ Suffix(conv.input.name) = ExtCkpt
    /\ CkptContent(conv.input).shape # "corrupt"

\* C1: for a loaded .ckpt the strategies are invoked in the order standard,
\* direct, manual, fallback; strategy i+1 is invoked only after strategy i
\* returned failure or raised; after a success no later strategy is invoked
\* and the conversion returns success, so at most one strategy succeeds.
C1_StrategyOrder ==
    /\ Len(chain) <= 4
    /\ \A i \in 1..Len(chain) : chain[i].strategy = i
    /\ \A i \in 1..(Len(chain) - 1) : chain[i].outcome \in {"failure", "raised"}
    /\ cpc = "strategy" => strat = Len(chain) + 1
    /\ (Len(chain) > 0 /\ chain[Len(chain)].outcome = "success")
          => (conv.ret = "true" /\ cpc \in {"finally", "returned"})

\* C1's case: the first three strategies failed and the fallback succeeded.
C1_Witness ==
    /\ cpc = "returned"
    /\ LoadedCkpt
    /\ Len(chain) = 4
    /\ chain[1].outcome = "failure"
    /\ chain[4].outcome = "success"

\* C2: a loaded checkpoint of any structure without model, ema and
\* state_dict reaches the fallback strategy; the conversion returns success
\* and leaves an output directory that validate_model accepts.
C2_FallbackReached ==
    (/\ cpc = "returned"
     /\ LoadedCkpt
     /\ UsedKey(CkptContent(conv.input)) = "")
    => (/\ \E i \in 1..Len(chain) : chain[i].strategy = 4
        /\ conv.ret = "true"
        /\ validate_model(out[conv.output]))

\* C3: an exception raised inside a strategy is caught by the chain
\* executor and counted as that strategy's failure: the next strategy is
\* tried (after the fourth, the all-failed branch), the chain never ends
\* early and the exception never leaves the conversion.
C3_ExceptionCaught ==
    /\ [][(/\ cpc = "strategy"
           /\ chain' = Append(chain, [strategy |-> strat, outcome |-> "raised"]))
          => (/\ conv'.ret = "none"
              /\ IF strat < 4 THEN cpc' = "strategy" /\ strat' = strat + 1
                 ELSE cpc' = "exhausted")]_vars
    /\ [](conv.ret # "raised")

\* C3's case: the standard export raised after it found model data, and so
\* did every later strategy.
C3_Witness ==
    /\ cpc = "exhausted"
    /\ UsedKey(conv.checkpoint) # ""
    /\ conv.checkpoint.data[UsedKey(conv.checkpoint)] # "none"
    /\ \A i \in 1..4 : chain[i].outcome = "raised"

\* C4: after convert() ended, by whatever path, neither temp_model.pt nor
\* temp_model.onnx exists in the output directory.
C4_NoInterimFiles ==
    cpc = "returned"
    => (~out[conv.output].tempPt /\ ~out[conv.output].tempOnnx)

\* The keys of the record of a successful conversion (lines 105-113).
SuccessFields ==
    {"model", "type", "status", "output_dir", "size_mb", "conversion_time", "quantized"}

C6_ValidIffClassesField ==
    bpc = "validated"
    => (is_valid = "true"
        <=> (/\ out[ValidatedDir].model \in {"graph", "placeholder"}
             /\ out[ValidatedDir].classes.kind = "object"
             /\ "classes" \in DOMAIN out[ValidatedDir].classes.members))

\* The statuses a batch result may carry.
Statuses == {"success", "validation_failed", "conversion_failed", "error"}

\* C7 as stated: success iff convert() returned true and validate_model
\* returned true; validation_failed iff convert() returned true and
\* validate_model returned false; conversion_failed iff convert() returned
\* false, validate_model then not being called; error iff an exception
\* escaped conversion, validation or the size calculation.
C7_StatusTableAsStated ==
    \A i \in 1..Len(results) :
        LET f == facts[i]
            s == results[i].status
        IN  /\ s \in Statuses
            /\ s = "success" <=> (f.ret = "true" /\ f.valid = "true")
            /\ s = "validation_failed" <=> (f.ret = "true" /\ f.valid = "false")
            /\ s = "conversion_failed" <=> f.ret = "false"
            /\ f.ret = "false" => f.valid = "none"
            /\ s = "error" <=> (f.ret = "raised" \/ f.sizeRaised)

\* C7 as amended: success iff convert() returned true, validate_model
\* returned true and the size calculation did not raise; the other three
\* rows as stated.  Every result carries exactly one of the four statuses.
C7_StatusTable ==
    \A i \in 1..Len(results) :
        LET f == facts[i]
            s == results[i].status
        IN  /\ s \in Statuses
            /\ s = "success" <=> (f.ret = "true" /\ f.valid = "true" /\ ~f.sizeRaised)
            /\ s = "validation_failed" <=> (f.ret = "true" /\ f.valid = "false")
            /\ s = "conversion_failed" <=> f.ret = "false"
            /\ f.ret = "false" => f.valid = "none"
            /\ s = "error" <=> (f.ret = "raised" \/ f.sizeRaised)

\* C7's case: a converted and validated model whose size calculation raised
\* is recorded beside a failed validation in the same run.
C7_Witness ==
    \E i, j \in 1..Len(results) :
        /\ results[i].status = "error"
        /\ facts[i].ret = "true" /\ facts[i].valid = "true"
        /\ results[j].status = "validation_failed"

\* C8: whenever convert_all has a non-empty list of scanned models, whatever
\* the result of each, it reaches the summary and the write of the results
\* log; by then exactly one result per scanned model was appended, in scan
\* order, and no model was converted twice.
C8_BatchCompletes ==
    /\ (bpc = "loop")
          ~> (/\ bpc = "done"
              /\ summary.run = run
              /\ summary.total = Len(models)
              /\ resultsFile.run = run
              /\ resultsFile.results = results)
    /\ []((bpc = "done" /\ Len(models) > 0)
          => (/\ Len(results) = Len(models)
              /\ \A i \in 1..Len(models) : results[i].model = models[i][1].name
              /\ calls = [i \in 1..Len(models) |-> models[i][1]]))
    /\ [](\A i, j \in 1..Len(calls) : i # j => calls[i] # calls[j])

\* C8's case: a finished run of two models, one recorded as error and one as
\* failed conversion.
C8_Witness ==
    /\ bpc = "done"
    /\ Len(models) = 2
    /\ resultsFile.results = results
    /\ \E i, j \in 1..Len(results) :
          /\ results[i].status = "error"
          /\ results[j].status = "conversion_failed"

\* C9: a checkpoint whose output directory holds model.json is left out of
\* the scan result, so a checkpoint recorded as success in one batch run is
\* not converted in a later run over the same directory.
C9_Idempotent ==
    /\ [][bpc = "scan"
          => \A i \in 1..Len(models') :
                 out[OutputDir(models'[i][1])].model = "absent"]_vars
    /\ [](\A s \in succeeded :
             s.run < run => \A i \in 1..Len(calls) : calls[i] # s.path)

\* C9's case: a second run converts a model that failed in the first run
\* and leaves alone one that succeeded in it.
C9_Witness ==
    /\ run = 2
    /\ Len(calls) > 0
    /\ \E s \in succeeded : s.run = 1 /\ s.path \in inputs

\* C10: in one batch run no two scanned checkpoints write into the same
\* output directory, and a checkpoint is recorded as success only for a
\* model.json its own conversion wrote.
C10_Independent ==
    /\ \A d \in OutDirs : Cardinality(wrote[d]) <= 1
    /\ \A i \in 1..Len(results) :
          results[i].status = "success" => facts[i].produced

\* C11: convert() on an .onnx input, which is _convert_onnx on the input
\* file, reports success if and only if model.json exists in the output
\* directory after the converter ran, whatever the converter's exit status
\* and whatever model.json holds.
C11_SuccessIffModelJson ==
    (cpc \in {"finally", "returned"} /\ Suffix(conv.input.name) = ExtOnnx)
    => (/\ conv.exit_status \in {"zero", "nonzero"}
        /\ conv.ret \in {"true", "false"}
        /\ conv.ret = "true" <=> out[conv.output].model # "absent")

\* C11's case: the converter exited with a failure status and the adapter
\* reported success on a model.json that is not a graph.
C11_Witness ==
    /\ cpc = "returned"
    /\ Suffix(conv.input.name) = ExtOnnx
    /\ conv.exit_status = "nonzero"
    /\ conv.ret = "true"
    /\ out[conv.output].model = "placeholder"

\* The minimal hardcoded descriptors: the one of _generate_classes_json's
\* handler, and the yolov7 descriptor of the two-class default.
MinimalDescriptors == {MinimalConfig, YoloV7Config(DefaultInfo)}

\* C12: a call of either descriptor writer does not fail the conversion and
\* leaves a classes.json that exists, parses, and holds the descriptor the
\* writer built or, after an internal error, the minimal hardcoded one.
\* The yolov7 writer is called when every strategy failed; the yolov5 writer
\* when the converter wrote the graph of a .pt input.
C12_WriterNeverFails ==
    /\ (/\ cpc \in {"finally", "returned"}
        /\ Len(chain) = 4
        /\ chain[4].outcome # "success")
       => (/\ out[conv.output].classes
                 \in {YoloV7Config(conv.model_info)} \cup MinimalDescriptors
           /\ ~Serialisable(conv.model_info.classes)
                 => out[conv.output].classes \in MinimalDescriptors)
    /\ (/\ cpc \in {"finally", "returned"}
        /\ Suffix(conv.input.name) = ExtPt
        /\ conv.produced)
       => (/\ conv.ret = "true"
           /\ out[conv.output].classes
                 \in {YoloV5Config(PtContent(conv.input))} \cup MinimalDescriptors)

\* C13: every classes.json the converter wrote, by whatever path and for
\* whatever checkpoint content, parses and holds a non-empty class list and
\* threshold and iouThreshold within [0,1] (0..100 in hundredths).
C13_DescriptorRoundTrip ==
    \A d \in OutDirs :
        out[d].classes.kind # "absent"
        => (/\ out[d].classes.kind = "object"
            /\ {"classes", "threshold", "iouThreshold"}
                  \subseteq DOMAIN out[d].classes.members
            /\ out[d].classes.members.classes.kind = "array"
            /\ Len(out[d].classes.members.classes.vals) > 0
            /\ out[d].classes.members.threshold \in 0..100
            /\ out[d].classes.members.iouThreshold \in 0..100)

\* C14: the class list of the model information _extract_yolov7_info
\* returned is never empty: it is the two-class default when the checkpoint
\* has no names field and the values of that field, a mapping or a sequence,
\* otherwise.
C14_ClassesNeverEmpty ==
    (/\ cpc \in {"strategy", "exhausted"}
     /\ LoadedCkpt
     /\ HasKey(conv.checkpoint, "names") => conv.checkpoint.cls.kind \in {"list", "dict"})
    => (/\ Len(conv.model_info.classes.vals) > 0
        /\ ~HasKey(conv.checkpoint, "names")
              => conv.model_info.classes = DefaultInfo.classes
        /\ HasKey(conv.checkpoint, "names")
              => conv.model_info.classes.vals = conv.checkpoint.cls.vals)

\* C15: when the standard export succeeded for a .ckpt whose checkpoint has
\* a names field, the descriptor written has classes equal to the sequence
\* of the names values in order and modelType 'yolov7-' followed by the
\* variant of the file name: tiny for tiny.ckpt, with inputSize 640x640, and
\* base for m.ckpt.
C15_StandardDescriptor ==
    (/\ cpc \in {"finally", "returned"}
     /\ conv.via = "standard"
     /\ HasKey(CkptContent(conv.input), "names")
     /\ out[conv.output].classes.kind = "object")
    => LET c == out[conv.output].classes.members
       IN  /\ c.classes = [kind |-> "array", vals |-> CkptContent(conv.input).cls.vals]
           /\ c.modelType = <<"yolov7-", IF conv.input = FileTCkpt THEN "tiny" ELSE "base">>
           /\ conv.input = FileTCkpt => c.inputSize = <<640, 640>>

\* C15's case: the standard export of tiny.ckpt with names {0: crop, 1: weed}
\* succeeded and wrote the descriptor.
C15_Witness ==
    /\ cpc = "returned"
    /\ conv.via = "standard"
    /\ conv.input = FileTCkpt
    /\ CkptContent(conv.input).cls = PyDict(<<"crop", "weed">>)
    /\ out[conv.output].classes.kind = "object"
    /\ out[conv.output].classes.members.classes.vals = <<"crop", "weed">>
    /\ out[conv.output].classes.members.modelType = <<"yolov7-", "tiny">>

\* The tier the variant of a classified type stands for.
TierOfVariant(model_type) ==
    CASE model_type = "yolov7-tiny" -> "fast"
      [] model_type \in {"yolov7-x", "yolov5l"} -> "accurate"
      [] model_type = "yolov7-e6" -> "premium"
      [] OTHER -> "balanced"

\* C18: the performance tier written to the model index follows the variant
\* of the classified type: tiny gives fast, x and l give accurate, e6 gives
\* premium, every other classifier output (yolov7, yolov5, yolov5s, yolov5m,
\* yolov8, unknown) gives balanced.
C18_TierFollowsVariant ==
    \A i \in 1..Len(modelIndex.models) :
        modelIndex.models[i].performance_tier = TierOfVariant(modelIndex.models[i].type)

\* Whether _extract_yolov7_info ran in the conversion behind facts[i]: the
\* file is a .ckpt whose checkpoint loaded as a container.
Extracted(i) ==
    /\ Suffix(facts[i].path.name) = ExtCkpt
    /\ SupportsIn(CkptContent(facts[i].path))
    /\ CkptContent(facts[i].path).shape # "corrupt"

\* C16: for a file name that contains yolov7 or ends in .ckpt the variant is
\* tiny when the name contains tiny; x when it contains x and not tiny; e6
\* when it contains e6 and neither; base otherwise, both in the classified
\* type and in the extracted model information; the input size is 1280x1280
\* exactly when the variant is e6 and the name contains 1280, else 640x640.
C16_VariantFirstMatch ==
    /\ \A i \in 1..Len(models) :
          LET name == Lower(models[i][1].name)
              tiny == Contains(name, S_tiny)
              x == Contains(name, S_x)
              e6 == Contains(name, S_e6)
          IN  (Contains(name, S_yolov7) \/ Suffix(models[i][1].name) = ExtCkpt)
              => (/\ models[i][2] = "yolov7-tiny" <=> tiny
                  /\ models[i][2] = "yolov7-x" <=> (x /\ ~tiny)
                  /\ models[i][2] = "yolov7-e6" <=> (e6 /\ ~x /\ ~tiny)
                  /\ models[i][2] = "yolov7" <=> (~e6 /\ ~x /\ ~tiny))
    /\ \A i \in 1..Len(facts) :
          LET name == Lower(facts[i].path.name)
              tiny == Contains(name, S_tiny)
              x == Contains(name, S_x)
              e6 == Contains(name, S_e6)
              info == facts[i].model_info
          IN  Extracted(i)
              => (/\ info.variant = "tiny" <=> tiny
                  /\ info.variant = "x" <=> (x /\ ~tiny)
                  /\ info.variant = "e6" <=> (e6 /\ ~x /\ ~tiny)
                  /\ info.variant = "base" <=> (~e6 /\ ~x /\ ~tiny)
                  /\ info.input_size = <<1280, 1280>>
                        <=> (info.variant = "e6" /\ Contains(name, S_1280))
                  /\ info.input_size \in {<<640, 640>>, <<1280, 1280>>})

\* C16's case: a name with tiny, e6 and 1280 was classified tiny and its
\* checkpoint converted with the input size 640x640.
C16_Witness ==
    \E i \in 1..Len(facts) :
        /\ Extracted(i)
        /\ Contains(Lower(facts[i].path.name), S_tiny)
        /\ Contains(Lower(facts[i].path.name), S_e6)
        /\ Contains(Lower(facts[i].path.name), S_1280)
        /\ facts[i].model_info.variant = "tiny"
        /\ facts[i].model_info.input_size = <<640, 640>>
        /\ results[i].type = "yolov7-tiny"

\* C17: for a file name that contains yolov5, and neither contains yolov7
\* nor ends in .ckpt, the classifier returns the first of s, m, l found in
\* the name, and the unqualified yolov5 when the name names no size variant,
\* as yolov5.pt and yolov5.onnx do.
C17_Yolov5Size ==
    \A i \in 1..Len(models) :
        LET name == Lower(models[i][1].name)
        IN  (/\ Contains(name, S_yolov5)
             /\ ~Contains(name, S_yolov7)
             /\ Suffix(models[i][1].name) # ExtCkpt)
            => IF Stem(name) = S_yolov5 THEN models[i][2] = "yolov5"
               ELSE models[i][2] =
                      (IF Contains(name, S_s) THEN "yolov5s"
                       ELSE IF Contains(name, S_m) THEN "yolov5m"
                       ELSE "yolov5l")

\* C19: two classifications of paths with the same file name give the same
\* type, variant and input size, whatever the directory, the checkpoint
\* content, the quantize flag and the conversions made before.
C19_SameNameSameClass ==
    /\ \A i, j \in 1..Len(models) :
          models[i][1].name = models[j][1].name => models[i][2] = models[j][2]
    /\ \A i, j \in 1..Len(facts) :
          (/\ facts[i].path.name = facts[j].path.name
           /\ Extracted(i)
           /\ Extracted(j))
          => (/\ facts[i].model_info.variant = facts[j].model_info.variant
              /\ facts[i].model_info.input_size = facts[j].model_info.input_size
              /\ facts[i].model_info.model_type = facts[j].model_info.model_type)

\* C19's case: the same name in two directories, with different checkpoint
\* contents and different outcomes, the second converted after the first.
C19_Witness ==
    /\ Len(facts) = 2
    /\ facts[1].path.name = facts[2].path.name
    /\ facts[1].path.dir # facts[2].path.dir
    /\ Extracted(1) /\ Extracted(2)
    /\ CkptContent(facts[1].path) # CkptContent(facts[2].path)
    /\ facts[1].via # facts[2].via
    /\ facts[1].model_info.variant = "e6"
    /\ facts[1].model_info.input_size = <<1280, 1280>>
    /\ results[1].type = "yolov7-e6"

\* C20: a strategy that returns failure or raises leaves the converter
\* object's fields, temp_onnx_path among them, and the files of the output
\* directory as they were when it was called.
C20_FailedStrategyFrame ==
    [][(/\ cpc = "strategy"
        /\ Len(chain') = Len(chain) + 1
        /\ chain'[Len(chain')].outcome \in {"failure", "raised"})
       => (/\ out' = out
           /\ conv'.temp_onnx_path = conv.temp_onnx_path
           /\ conv'.input = conv.input
           /\ conv'.output = conv.output
           /\ conv'.quantize = conv.quantize)]_vars

\* The input's extension is none of .pt, .ckpt and .onnx, compared exactly.
UnsupportedFormat == Suffix(conv.input.name) \notin {ExtPt, ExtCkpt, ExtOnnx}

C22_InspectorNeverRaises ==
    /\ insp.pc # "raised"
    /\ (insp.pc = "returned" /\ insp.blob.kind # "unloadable") =>
          /\ insp.ret = "checkpoint"
          /\ insp.checkpoint = insp.blob
          /\ insp.blob.kind # "dict" => insp.suggestion = "unexpected"
          /\ (insp.blob.kind = "dict"
                /\ DOMAIN insp.blob.items \cap {"model", "ema", "state_dict"} = {}) =>
                insp.suggestion = "non_standard"

FirstWithData(ckpt) ==
    IF HasKey(ckpt, "model") /\ ckpt.data["model"] # "none" THEN "model"
    ELSE IF HasKey(ckpt, "ema") /\ ckpt.data["ema"] # "none" THEN "ema"
    ELSE IF HasKey(ckpt, "state_dict") /\ ckpt.data["state_dict"] # "none" THEN "state_dict"
    ELSE ""

\* C24: the standard export takes the model data from the first of model,
\* ema, state_dict that holds model data, and raises 'no model data found'
\* only when none of them does: with every external call working, the
\* strategy about to run raises exactly when no key holds model data, and
\* otherwise the key it uses is the first one holding model data.
C24_FirstKeyWithData ==
    (cpc = "strategy" /\ strat = 1) =>
        LET r == strategy_ultralytics_export(out[conv.output], conv.checkpoint,
                                             conv.model_info, QuietEnv)
            first == FirstWithData(conv.checkpoint)
        IN  /\ r.outcome = "raised" <=> first = ""
            /\ first # "" => UsedKey(conv.checkpoint) = first

\* C25: the class list the fallback writes is the one the standard export
\* writes for the same checkpoint and file name, the list of the values of
\* names and never the raw mapping: after a conversion that succeeded by the
\* fallback, the classes member of classes.json is that of the descriptor
\* built from the extracted model information, and it is an array (names
\* being a list or a mapping).
C25_FallbackClassesAsStandard ==
    (/\ cpc \in {"finally", "returned"} /\ conv.via = "fallback"
     /\ HasKey(conv.checkpoint, "names")
     /\ conv.checkpoint.cls.kind \in {"list", "dict"}) =>
        LET written == out[conv.output].classes
            standard == YoloV7Config(conv.model_info)
        IN  /\ written.kind = "object"
            /\ written.members.classes = standard.members.classes
            /\ written.members.classes.kind = "array"

\* C26: whenever convert() returns success, whatever the input format and the
\* path that succeeded, the output directory holds model.json and
\* classes.json and passes validate_model.
C26_SuccessIsValid ==
    (cpc = "returned" /\ conv.ret = "true") =>
        /\ out[conv.output].model # "absent"
        /\ out[conv.output].classes.kind # "absent"
        /\ validate_model(out[conv.output])

\* C27: whenever _convert_onnx reports success, the model.json it found was
\* written by that invocation: a conversion that succeeded through
\* _convert_onnx (an .onnx input, a .pt input, or the standard export of a
\* checkpoint) has produced model.json itself, and never counts a model.json
\* left by an earlier conversion or by the fallback.
C27_SuccessMeansProduced ==
    (cpc \in {"finally", "returned"} /\ conv.via \in {"onnx", "pytorch", "standard"}) =>
        conv.produced

\* C28: a checkpoint whose output directory holds the fallback's placeholder
\* model.json is left out by every batch scan that finds the placeholder
\* there: it counts as already converted.
C28_PlaceholderExcluded ==
    [][bpc = "scan" =>
          \A p \in inputs :
              (Suffix(p.name) = ExtCkpt /\ out[OutputDir(p)].model = "placeholder") =>
                  \A i \in 1..Len(models') : models'[i][1] # p]_vars

\* The second run is over; it neither called convert_model for a checkpoint
\* nor wrote into its directory, which holds the placeholder of the first
\* run.
C28_Witness ==
    /\ run = 2
    /\ bpc = "done"
    /\ \E p \in inputs :
          /\ Suffix(p.name) = ExtCkpt
          /\ out[OutputDir(p)].model = "placeholder"
          /\ wrote[OutputDir(p)] = {}
          /\ \A i \in 1..Len(calls) : calls[i] # p

\* C29: converting a .pt input leaves the other files of the input's
\* directory alone: every file that was there before _convert_pytorch ran,
\* an .onnx file of the same stem included, is still there after it.
C29_PytorchLeavesSiblings ==
    [][cpc = "pytorch" => \A f \in inputs : f \in inputs']_vars

\* The variant a type of the yolov7 family names.
VariantOfType(model_type) ==
    CASE model_type = "yolov7-tiny" -> "tiny"
      [] model_type = "yolov7-x" -> "x"
      [] model_type = "yolov7-e6" -> "e6"
      [] model_type = "yolov7" -> "base"
      [] OTHER -> "none"

C31_InspectorAgreesWithExport ==
    LET ckpt == CkptOfBlob(insp.checkpoint)
        r == strategy_ultralytics_export(EmptyDir, ckpt, DefaultInfo, QuietEnv)
        used_key == UsedKey(ckpt)
    IN  /\ (insp.pc \in {"metadata", "classes", "suggest", "returned", "raised"}
              /\ insp.checkpoint.kind = "dict") =>
                (insp.found_model_keys # <<>> <=> r.outcome # "raised")
        /\ (insp.pc = "returned" /\ insp.checkpoint.kind = "dict") =>
              /\ insp.suggestion = "standard" <=> used_key = "model"
              /\ insp.suggestion = "ema" <=> used_key = "ema"
              /\ insp.suggestion = "state_dict" <=> used_key = "state_dict"
              /\ insp.suggestion = "non_standard" <=> used_key = ""

\* C32: in the model index every entry has an id of its own and a graph path
\* of its own (the path is models/<dir_name>/model.json), and total_models
\* is the number of entries, whatever the successfully converted models of
\* the run: equal file names in different directories and equal stems with
\* different extensions included.
C32_IndexEntriesDistinct ==
    /\ modelIndex.total_models = Len(modelIndex.models)
    /\ \A i, j \in 1..Len(modelIndex.models) :
          i # j =>
              /\ modelIndex.models[i].id # modelIndex.models[j].id
              /\ modelIndex.models[i].dir_name # modelIndex.models[j].dir_name

====
